---- MODULE Spec2Model ----
(***************************************************************************)
(* Model of src/util/profile/profile.ts: the profile of the single        *)
(* logged-in user, kept in a JSON profile file, with the access token in   *)
(* the token store and a process-wide cache (currentProfile).              *)
(*                                                                         *)
(* One caller issues one call at a time.  The asynchronous operations      *)
(* (saveUser, logout, deleteUser) take two steps, the token-store call and *)
(* the continuation that touches the profile file; the process may be      *)
(* restarted (or crash) before the continuation runs.                      *)
(***************************************************************************)
EXTENDS Integers, Sequences, FiniteSets, TLC

\* Number of ProfileImpl instances one process constructs (bound).
MaxObjs == 2

(***************************************************************************)
(* JavaScript values.  A property value is <<>> (undefined) or <<v>>;      *)
(* an object is a function from its own property names to values.          *)
(***************************************************************************)
Undef == <<>>
Val(v) == <<v>>

\* obj.k
Get(obj, k) == IF k \in DOMAIN obj THEN obj[k] ELSE Undef

\* Truthiness of a string-or-undefined value: undefined and "" are falsy.
Truthy(v) == v # Undef /\ v # Val("")

\* a || b
Or(a, b) == IF Truthy(a) THEN a ELSE b

\* Object.assign({}, a, b): b's properties win.
ObjectAssign(a, b) ==
  [k \in DOMAIN a \cup DOMAIN b |-> IF k \in DOMAIN b THEN b[k] ELSE a[k]]

\* JSON.stringify of an object: properties whose value is undefined are left
\* out.  The JSON text is represented by the object it denotes.
JSONstringify(obj) == [k \in {j \in DOMAIN obj : obj[j] # Undef} |-> obj[k]]

\* JSON.parse of a text written by JSONstringify: the object it denotes.
JSONparse(text) == [k \in DOMAIN text |-> text[k]]

(***************************************************************************)
(* Inputs.                                                                 *)
(***************************************************************************)
Names == {"alice", "bob"}
Environments == {"prod", "int"}
Tokens == {[id |-> "id1", token |-> "secret1"], [id |-> "id2", token |-> "secret2"]}
App == [ownerName |-> "acme", appName |-> "myapp", identifier |-> "acme/myapp"]

\* A user as the API returns it (id, name, ...), with a property the profile
\* does not keep.
ApiUser(id, name) ==
  [id |-> Val(id), name |-> Val(name), displayName |-> Val(name),
   avatarUrl |-> Val("pic")]

\* A user in the profile file's shape (userId, userName, ...), which also
\* carries a name, an environment of its own and a default app.
FileUser(name) ==
  [userId |-> Val("u1"), userName |-> Val("alice"), name |-> Val(name),
   displayName |-> Val("alice"), email |-> Val("a@x.io"),
   environment |-> Val("stale"), defaultApp |-> Val(App)]

\* The users saveUser is called with: alice, bob with an empty id, and the
\* file-shaped user under either name.
Users == {ApiUser("u1", "alice"), ApiUser("", "bob")} \cup {FileUser(n) : n \in Names}

(***************************************************************************)
(* ProfileImpl.                                                            *)
(***************************************************************************)
ProfileKeys ==
  {"userId", "userName", "displayName", "email", "environment", "defaultApp"}

\* No profile (null).  A profile instance is a record with its identity
\* (oid >= 1) and its six fields.
Null == [oid |-> 0]

\* new ProfileImpl(fileContents), the instance getting identity oid.
ProfileImpl(fileContents, oid) ==
  [oid         |-> oid,
   userId      |-> Or(Get(fileContents, "userId"), Get(fileContents, "id")),
   userName    |-> Or(Get(fileContents, "userName"), Get(fileContents, "name")),
   displayName |-> Get(fileContents, "displayName"),
   email       |-> Get(fileContents, "email"),
   environment |-> Get(fileContents, "environment"),
   defaultApp  |-> Get(fileContents, "defaultApp")]

\* Mutant: save() that also writes the access token.
SaveObjectWithToken(this) ==
  [k \in ProfileKeys \cup {"accessToken"} |->
     IF k = "accessToken" THEN Val("secret") ELSE this[k]]

\* The object literal save() builds from this.
SaveObject(this) == [k \in ProfileKeys |-> this[k]]

\* The profile file after this.save(): mkdirp, then writeFileSync.
SavedFile(this) == [exists |-> TRUE, contents |-> JSONstringify(SaveObject(this))]

\* The profile file is absent.
NoFile == [exists |-> FALSE]

(***************************************************************************)
(* The token store (../token-store): a map from key to token value.        *)
(***************************************************************************)
TokenStoreSet(store, key, token) ==
  [k \in DOMAIN store \cup {key} |-> IF k = key THEN token ELSE store[k]]

TokenStoreRemove(store, key) == [k \in DOMAIN store \ {key} |-> store[k]]

TokenStoreHas(store, key) == key \in DOMAIN store

(***************************************************************************)
(* State.                                                                  *)
(***************************************************************************)
VARIABLES
  file,            \* the profile file: NoFile or [exists, contents]
  tokens,          \* the token store
  currentProfile,  \* the process-wide cache: Null or a profile instance
  held,            \* the profile reference the caller holds (Null: none)
  allocated,       \* ProfileImpl instances constructed by this process
  call,            \* the call in progress, or the last one completed
  since,           \* history: the previous getUser result, and calls since
  app,             \* the string toDefaultApp is called with
  appResult        \* Undef before the call, then <<what toDefaultApp returned>>

vars == <<file, tokens, currentProfile, held, allocated, call, since, app, appResult>>

\* The state of the profile store, which toDefaultApp leaves alone.
storeVars == <<file, tokens, currentProfile, held, allocated, call, since>>

\* The state of a toDefaultApp call, which the profile store leaves alone.
appVars == <<app, appResult>>

NoArg == <<>>
NoToken == [id |-> "", token |-> ""]

\* No call made yet in this process.
NoCall ==
  [op |-> "none", self |-> Null, user |-> NoArg, token |-> NoToken, env |-> "",
   out |-> "none", err |-> "none", ret |-> Null, read |-> FALSE,
   prev |-> -1, su |-> FALSE, sv |-> FALSE, again |-> FALSE, crashed |-> "none",
   deleted |-> NoArg]

Call(op, self, out, err, ret) ==
  [NoCall EXCEPT !.op = op, !.self = self, !.out = out, !.err = err, !.ret = ret]

Idle == call.out # "pending"

\* No getUser call yet in this process.
NoGet == [ret |-> -1, su |-> FALSE, sv |-> FALSE]

Init ==
  /\ file = NoFile
  /\ tokens = <<>>
  /\ currentProfile = Null
  /\ held = Null
  /\ allocated = 0
  /\ call = NoCall
  /\ since = NoGet
  /\ app = <<>>
  /\ appResult = Undef

(***************************************************************************)
(* getUser.                                                                *)
(***************************************************************************)
fileExists(f) == f.exists

\* loadProfile(): null without a file, else a new instance parsed from it.
loadProfile ==
  IF ~fileExists(file) THEN Null
  ELSE ProfileImpl(JSONparse(file.contents), allocated + 1)

\* Mutant: getUser() without the cache check.
getUserResultNoCache == loadProfile

\* Mutant: getUser() that loads again when the cached profile is not the
\* one in the profile file.
getUserResultRefreshes ==
  IF currentProfile = Null \/ ~fileExists(file) THEN loadProfile
  ELSE IF currentProfile.userName = file.contents.userName THEN currentProfile
  ELSE loadProfile

\* Mutant: getUser() that keeps the null it returned before.
getUserResultNullKept ==
  IF currentProfile = Null /\ since.ret # 0 THEN loadProfile ELSE currentProfile

\* What getUser() assigns to currentProfile and returns.
getUserResult == IF currentProfile = Null THEN loadProfile ELSE currentProfile

\* getUser() reads the profile file.
getUserReads == currentProfile = Null /\ fileExists(file)

\* Instances constructed after a getUser().
getUserAllocated == IF getUserReads THEN allocated + 1 ELSE allocated

getUser(keep) ==
  /\ Idle
  /\ getUserAllocated <= MaxObjs
  /\ currentProfile' = getUserResult
  /\ allocated' = getUserAllocated
  /\ call' = [Call("getUser", Null, "returned", "none", getUserResult)
                EXCEPT !.read = getUserReads,
                       !.prev = since.ret, !.su = since.su, !.sv = since.sv]
  /\ since' = [ret |-> getUserResult.oid, su |-> FALSE, sv |-> FALSE]
  /\ held' = IF keep THEN getUserResult ELSE held
  /\ UNCHANGED <<file, tokens, appVars>>

(***************************************************************************)
(* saveUser: tokenStore.set(user.name, token), then the continuation that  *)
(* constructs the profile and saves it.                                    *)
(***************************************************************************)
\* The key saveUser stores the token under.
saveUserKey(user) == Get(user, "name")

\* Mutant: Object.assign with its sources swapped (the user's own environment wins).
saveUserProfileUserWins(user, environment, oid) ==
  ProfileImpl(ObjectAssign([environment |-> Val(environment)], user), oid)

\* The profile saveUser constructs.
saveUserProfile(user, environment, oid) ==
  ProfileImpl(ObjectAssign(user, [environment |-> Val(environment)]), oid)

\* Mutant: saveUser that saves the profile without waiting for the token store.
saveUserSavesFirst(user, token, environment, ok) ==
  /\ Idle
  /\ allocated < MaxObjs
  /\ tokens' = IF ok THEN TokenStoreSet(tokens, saveUserKey(user), token) ELSE tokens
  /\ file' = SavedFile(saveUserProfile(user, environment, allocated + 1))
  /\ call' = [Call("saveUser", Null, IF ok THEN "pending" ELSE "rejected",
                   IF ok THEN "none" ELSE "tokenStore", Null)
                EXCEPT !.user = user, !.token = token, !.env = environment,
                       !.crashed = IF call.op = "none" THEN call.crashed ELSE "none"]
  /\ since' = [since EXCEPT !.su = TRUE]
  /\ UNCHANGED <<currentProfile, held, allocated, appVars>>

\* First step; ok: the token store's set succeeds.
saveUser(user, token, environment, ok) ==
  /\ Idle
  /\ allocated < MaxObjs
  /\ tokens' = IF ok THEN TokenStoreSet(tokens, saveUserKey(user), token) ELSE tokens
  /\ call' = [Call("saveUser", Null, IF ok THEN "pending" ELSE "rejected",
                   IF ok THEN "none" ELSE "tokenStore", Null)
                EXCEPT !.user = user, !.token = token, !.env = environment,
                       !.crashed = IF call.op = "none" THEN call.crashed ELSE "none"]
  /\ since' = [since EXCEPT !.su = TRUE]
  /\ UNCHANGED <<file, currentProfile, held, allocated, appVars>>

\* The continuation; keep: the caller keeps the resolved profile.
saveUserThen(keep) ==
  /\ call.op = "saveUser" /\ call.out = "pending"
  /\ LET profile == saveUserProfile(call.user, call.env, allocated + 1) IN
       /\ file' = SavedFile(profile)
       /\ call' = [call EXCEPT !.out = "resolved", !.ret = profile]
       /\ held' = IF keep THEN profile ELSE held
  /\ allocated' = allocated + 1
  /\ UNCHANGED <<tokens, currentProfile, since, appVars>>

(***************************************************************************)
(* Methods of the profile the caller holds.                                *)
(***************************************************************************)
save ==
  /\ Idle
  /\ held # Null
  /\ file' = SavedFile(held)
  /\ call' = Call("save", held, "returned", "none", held)
  /\ since' = [since EXCEPT !.sv = TRUE]
  /\ UNCHANGED <<tokens, currentProfile, held, allocated, appVars>>

\* Mutant: the token stored under the userId.
setAccessTokenStoreById(this, token) == TokenStoreSet(tokens, this.userId, token)

\* The token store after this.setAccessToken(token) succeeded.
setAccessTokenStore(this, token) == TokenStoreSet(tokens, this.userName, token)

setAccessToken(token, ok) ==
  /\ Idle
  /\ held # Null
  /\ tokens' = IF ok THEN setAccessTokenStore(held, token) ELSE tokens
  /\ call' = [Call("setAccessToken", held, IF ok THEN "resolved" ELSE "rejected",
                   IF ok THEN "none" ELSE "tokenStore", IF ok THEN held ELSE Null)
                EXCEPT !.token = token]
  /\ UNCHANGED <<file, currentProfile, held, allocated, since, appVars>>

\* Mutant: logout() without the tokenStore.remove.
logoutStoreKept(this) == tokens

\* The token store after this.logout()'s first step succeeded.
logoutStore(this) == TokenStoreRemove(tokens, this.userName)

\* this.logout() up to its await, called as op (logout, or deleteUser).
logoutStart(this, op, ok) ==
  /\ tokens' = IF ok THEN logoutStore(this) ELSE tokens
  /\ call' = [Call(op, this, IF ok THEN "pending" ELSE "rejected",
                   IF ok THEN "none" ELSE "tokenStore", Null)
                EXCEPT !.read = IF op = "deleteUser" THEN getUserReads ELSE FALSE,
                       !.prev = since.ret, !.su = since.su, !.sv = since.sv,
                       !.again = /\ op = "logout" /\ call.op = "logout"
                                 /\ call.out = "resolved" /\ call.self = this]

\* Mutant: logout() that deletes the profile file before the token.
logoutUnlinksFirst(ok) ==
  /\ Idle
  /\ held # Null
  /\ logoutStart(held, "logout", ok)
  /\ file' = NoFile
  /\ since' = [since EXCEPT !.su = TRUE]
  /\ UNCHANGED <<currentProfile, held, allocated, appVars>>

logout(ok) ==
  /\ Idle
  /\ held # Null
  /\ logoutStart(held, "logout", ok)
  /\ since' = [since EXCEPT !.su = TRUE]
  /\ UNCHANGED <<file, currentProfile, held, allocated, appVars>>

\* Mutant: logout() without the unlinkSync.
logoutFileKept == file

\* The profile file after unlinkSync succeeded.
logoutFile == NoFile

\* After the await: unlinkSync; unlinkOk: no error other than ENOENT.
logoutUnlink(unlinkOk) ==
  /\ call.op \in {"logout", "deleteUser"} /\ call.out = "pending"
  /\ IF ~fileExists(file)
       THEN \* ENOENT: swallowed
            /\ file' = file
            /\ call' = [call EXCEPT !.out = "resolved"]
       ELSE IF unlinkOk
         THEN /\ file' = logoutFile
              /\ call' = [call EXCEPT !.out = "resolved", !.deleted = file.contents]
         ELSE /\ file' = file
              /\ call' = [call EXCEPT !.out = "rejected", !.err = "EACCES"]
  /\ UNCHANGED <<tokens, currentProfile, held, allocated, since, appVars>>

(***************************************************************************)
(* deleteUser: getUser(), then logout() on the profile it returned.        *)
(***************************************************************************)
\* Mutant: deleteUser() without the "if (profile)" test: null.logout() throws.
deleteUserUnguarded(ok) ==
  /\ Idle
  /\ getUserAllocated <= MaxObjs
  /\ currentProfile' = getUserResult
  /\ allocated' = getUserAllocated
  /\ IF getUserResult # Null
       THEN /\ logoutStart(getUserResult, "deleteUser", ok)
            /\ since' = [ret |-> getUserResult.oid, su |-> TRUE, sv |-> FALSE]
       ELSE /\ tokens' = tokens
            /\ call' = [Call("deleteUser", Null, "rejected", "TypeError", Null)
                          EXCEPT !.prev = since.ret, !.su = since.su, !.sv = since.sv]
            /\ since' = [ret |-> 0, su |-> FALSE, sv |-> FALSE]
  /\ UNCHANGED <<file, held, appVars>>

deleteUser(ok) ==
  /\ Idle
  /\ getUserAllocated <= MaxObjs
  /\ currentProfile' = getUserResult
  /\ allocated' = getUserAllocated
  /\ IF getUserResult # Null
       THEN /\ logoutStart(getUserResult, "deleteUser", ok)
            /\ since' = [ret |-> getUserResult.oid, su |-> TRUE, sv |-> FALSE]
       ELSE /\ tokens' = tokens
            /\ call' = [Call("deleteUser", Null, "resolved", "none", Null)
                          EXCEPT !.prev = since.ret, !.su = since.su, !.sv = since.sv]
            /\ since' = [ret |-> 0, su |-> FALSE, sv |-> FALSE]
  /\ UNCHANGED <<file, held, appVars>>

(***************************************************************************)
(* Process restart: the cache, the references and a pending continuation   *)
(* are gone; the profile file and the token store stay.                    *)
(***************************************************************************)
Restart ==
  /\ currentProfile' = Null
  /\ held' = Null
  /\ allocated' = 0
  /\ call' = [NoCall EXCEPT !.crashed = IF call.out = "pending" THEN call.op ELSE "none"]
  /\ since' = NoGet
  /\ UNCHANGED <<file, tokens, appVars>>

(***************************************************************************)
(* toDefaultApp.  A string is a sequence of one-character strings.         *)
(***************************************************************************)
\* Longest short input string (bound).
MaxShort == 3

\* The quantifier {1,100} of validApp.
SegMin == 1
SegMax == 100

Lower == {"a","b","c","d","e","f","g","h","i","j","k","l","m",
          "n","o","p","q","r","s","t","u","v","w","x","y","z"}
Upper == {"A","B","C","D","E","F","G","H","I","J","K","L","M",
          "N","O","P","Q","R","S","T","U","V","W","X","Y","Z"}
Digit == {"0","1","2","3","4","5","6","7","8","9"}

\* The character class [a-zA-Z0-9-_.] of validApp.
ClassChars == Lower \cup Upper \cup Digit \cup {"-", "_", "."}

\* The number of characters the greedy [a-zA-Z0-9-_.]{1,100} takes from
\* position from of s (0: the group cannot match there).
GroupLen(s, from) ==
  LET most == IF Len(s) - from + 1 < SegMax THEN Len(s) - from + 1 ELSE SegMax
      runs == {n \in 0..(IF most < 0 THEN 0 ELSE most) :
                 \A i \in from..(from + n - 1) : s[i] \in ClassChars}
  IN CHOOSE n \in runs : \A m \in runs : m <= n

\* Mutant: validApp without its closing "$".
validAppMatchUnanchored(s) ==
  LET n1 == GroupLen(s, 1) IN
  IF n1 < SegMin \/ n1 + 1 > Len(s) THEN Null
  ELSE IF s[n1 + 1] # "/" THEN Null
  ELSE LET n2 == GroupLen(s, n1 + 2) IN
       IF n2 < SegMin THEN Null
       ELSE <<SubSeq(s, 1, n1), SubSeq(s, n1 + 2, n1 + 1 + n2)>>

\* app.match(validApp): Null, or <<matches[1], matches[2]>>.  Giving back
\* characters of a group never helps, as what follows a group ("/", the end)
\* is not in its class.
validAppMatch(s) ==
  LET n1 == GroupLen(s, 1) IN
  IF n1 < SegMin \/ n1 + 1 > Len(s) THEN Null
  ELSE IF s[n1 + 1] # "/" THEN Null
  ELSE LET n2 == GroupLen(s, n1 + 2) IN
       IF n2 < SegMin \/ n1 + 1 + n2 # Len(s) THEN Null
       ELSE <<SubSeq(s, 1, n1), SubSeq(s, n1 + 2, n1 + 1 + n2)>>

toDefaultApp(s) ==
  LET matches == validAppMatch(s) IN
  IF matches # Null
    THEN [ownerName  |-> matches[1],
          appName    |-> matches[2],
          identifier |-> matches[1] \o <<"/">> \o matches[2]]
    ELSE Null

\* n times the character c.
Repeat(c, n) == [i \in 1..n |-> c]

\* Strings of at most n characters of alphabet.
RECURSIVE StringsUpTo(_, _)
StringsUpTo(alphabet, n) ==
  IF n = 0 THEN {<<>>}
  ELSE LET shorter == StringsUpTo(alphabet, n - 1)
       IN shorter \cup {Append(s, c) : s \in {t \in shorter : Len(t) = n - 1},
                                       c \in alphabet}

\* The inputs: every short string of letters, digits, the three punctuation
\* characters, the slash and a space; and strings of two long segments, of
\* lengths around SegMax, around a slash.
AppAlphabet == {"a", "Z", "7", "-", "_", ".", "/", " "}
LongLens == {SegMin, SegMax - 1, SegMax, SegMax + 1}
AppInputs ==
  StringsUpTo(AppAlphabet, MaxShort)
    \cup {Repeat(c, n) \o sep \o Repeat(d, m) :
            c \in {"a", "."}, d \in {"Z", " "}, n \in LongLens, m \in LongLens,
            sep \in {<<"/">>, <<"/", "/">>}}

InitApp ==
  /\ Init!1 /\ Init!2 /\ Init!3 /\ Init!4 /\ Init!5 /\ Init!6 /\ Init!7
  /\ app \in AppInputs
  /\ appResult = Undef

toDefaultAppCall ==
  /\ appResult = Undef
  /\ appResult' = Val(toDefaultApp(app))
  /\ UNCHANGED <<app, storeVars>>

NextApp == toDefaultAppCall

SpecApp == InitApp /\ [][NextApp]_vars

Next ==
  \/ \E keep \in BOOLEAN : getUser(keep)
  \/ \E user \in Users, token \in Tokens, environment \in Environments, ok \in BOOLEAN :
       saveUser(user, token, environment, ok)
  \/ \E keep \in BOOLEAN : saveUserThen(keep)
  \/ save
  \/ \E token \in Tokens, ok \in BOOLEAN : setAccessToken(token, ok)
  \/ \E ok \in BOOLEAN : logout(ok)
  \/ \E unlinkOk \in BOOLEAN : logoutUnlink(unlinkOk)
  \/ \E ok \in BOOLEAN : deleteUser(ok)
  \/ Restart

Spec == Init /\ [][Next]_vars
(***************************************************************************)
(* Properties.                                                             *)
(***************************************************************************)
\* A getUser() call has returned, and it was not the first of this process.
SecondGetUser == call.op = "getUser" /\ call.out = "returned" /\ call.prev # -1

\* C1, as stated: of two getUser() calls of one process with no saveUser and
\* no logout between them, the second returns the instance the first returned
\* and does not read the profile file.
C1_SameInstanceUnlessSaveUserOrLogout ==
  (SecondGetUser /\ ~call.su) => (call.ret.oid = call.prev /\ ~call.read)

\* C1, amended: of two getUser() calls of one process with no saveUser, no
\* save and no logout between them, the second returns what the first
\* returned (the same cached instance, or null again) and does not read the
\* profile file.
C1_SameInstanceUnlessWritten ==
  (SecondGetUser /\ ~call.su /\ ~call.sv) => (call.ret.oid = call.prev /\ ~call.read)

\* C1 witness: a second getUser() returned the cached instance of the first,
\* with a profile file on disk it did not read.
C1_Witness ==
  /\ SecondGetUser /\ ~call.su /\ ~call.sv
  /\ call.prev >= 1 /\ call.ret.oid = call.prev /\ fileExists(file)

\* C2: whenever no profile file exists, getUser() returns null.
C2_NullWithoutFile ==
  (call.op = "getUser" /\ call.out = "returned" /\ ~fileExists(file))
    => call.ret = Null

\* C3: after a logout() that resolved, the token store has no entry for the
\* profile's userName and the profile file does not exist; a logout() called
\* again on that profile finds and leaves both that way at every step, and
\* does not fail deleting the absent file (it rejects only if the token
\* store's remove does).
C3_LogoutRemovesBothAndRepeats ==
  call.op = "logout" =>
    /\ (call.out = "resolved" \/ call.again) =>
         (~TokenStoreHas(tokens, call.self.userName) /\ ~fileExists(file))
    /\ (call.again /\ call.out # "pending") =>
         (call.out = "resolved" \/ call.err = "tokenStore")

\* C3 witness: a second logout() on the same profile has resolved.
C3_Witness == call.op = "logout" /\ call.again /\ call.out = "resolved"

\* C4: a getUser() that follows a logout() or deleteUser() that resolved
\* returns null.
C4_NullAfterLogout ==
  [][(call.op \in {"logout", "deleteUser"} /\ call.out = "resolved"
        /\ call'.op = "getUser")
       => call'.ret = Null]_vars

\* C5: a getUser() that follows a saveUser that resolved returns a profile
\* with the userId, userName and environment of the profile just saved.
C5_SavedUserIsCurrent ==
  [][(call.op = "saveUser" /\ call.out = "resolved" /\ call'.op = "getUser")
       => /\ call'.ret # Null
          /\ call'.ret.userId = call.ret.userId
          /\ call'.ret.userName = call.ret.userName
          /\ call'.ret.environment = call.ret.environment]_vars

\* The value the profile record takes for key k from a user and an
\* environment: the environment given; the user's userId and userName, or
\* its id and name where those are missing or empty; the user's own
\* displayName, email and defaultApp.
RecordValue(user, environment, k) ==
  CASE k = "environment" -> Val(environment)
    [] k = "userId" ->
         IF "userId" \in DOMAIN user /\ user.userId \notin {Undef, Val("")}
           THEN user.userId ELSE Get(user, "id")
    [] k = "userName" ->
         IF "userName" \in DOMAIN user /\ user.userName \notin {Undef, Val("")}
           THEN user.userName ELSE Get(user, "name")
    [] OTHER -> Get(user, k)

\* C6: when saveUser(user, token, environment) has resolved, the token store
\* maps user.name to token, the profile file holds exactly the record of the
\* user's fields with the environment given, and the resolved value is the
\* profile with those fields.
C6_SaveUserStoresTokenAndRecord ==
  (call.op = "saveUser" /\ call.out = "resolved") =>
    /\ TokenStoreHas(tokens, call.user.name)
    /\ tokens[call.user.name] = call.token
    /\ fileExists(file)
    /\ DOMAIN file.contents \subseteq ProfileKeys
    /\ \A k \in ProfileKeys :
         /\ Get(file.contents, k) = RecordValue(call.user, call.env, k)
         /\ call.ret[k] = RecordValue(call.user, call.env, k)
    /\ call.ret.oid >= 1

\* C6 witness: saveUser resolved for a user that carries an environment of
\* its own, over the profile file of another user.
C6_Witness ==
  /\ call.op = "saveUser" /\ call.out = "resolved"
  /\ "environment" \in DOMAIN call.user
  /\ currentProfile # Null /\ currentProfile.userName # call.ret.userName

\* C7: deleteUser() called when getUser() would return null resolves, and
\* leaves the token store, the profile file and the cache as they were.
C7_DeleteUserNoop ==
  [][(Idle /\ getUserResult = Null /\ call'.op = "deleteUser")
       => /\ call'.out = "resolved"
          /\ tokens' = tokens /\ file' = file /\ currentProfile' = currentProfile]_vars

\* C7 witness: deleteUser() resolved without a user while the token store
\* held an entry.
C7_Witness ==
  /\ call.op = "deleteUser" /\ call.self = Null /\ call.out = "resolved"
  /\ DOMAIN tokens # {} /\ currentProfile = Null /\ ~fileExists(file)

\* C8: after save() (by itself or within saveUser), loadProfile() in a fresh
\* process yields a profile with the six fields of the profile saved.
C8_RoundTrip ==
  \A p \in {call.self, call.ret} :
    ((\/ call.op = "save" /\ call.out = "returned" /\ p = call.self
      \/ call.op = "saveUser" /\ call.out = "resolved" /\ p = call.ret)
     => /\ loadProfile # Null
        /\ \A k \in ProfileKeys : loadProfile[k] = p[k])

\* A string of the form owner/app: one slash, with SegMin..SegMax characters
\* of the class before it and after it, and nothing else.
IsOwnerSlashApp(s) ==
  \E p \in 1..Len(s) :
    /\ s[p] = "/"
    /\ p - 1 \in SegMin..SegMax
    /\ Len(s) - p \in SegMin..SegMax
    /\ \A i \in (1..Len(s)) \ {p} : s[i] \in ClassChars

\* C9: toDefaultApp returns {ownerName, appName, identifier}, the identifier
\* being ownerName "/" appName and the string itself, for a string of the
\* form owner/app, and null for every other string.
C9_ToDefaultApp ==
  appResult # Undef =>
    LET r == appResult[1] IN
    IF IsOwnerSlashApp(app)
      THEN /\ r # Null
           /\ DOMAIN r = {"ownerName", "appName", "identifier"}
           /\ r.identifier = r.ownerName \o <<"/">> \o r.appName
           /\ r.identifier = app
           /\ \A i \in 1..Len(r.ownerName) : r.ownerName[i] # "/"
           /\ \A i \in 1..Len(r.appName) : r.appName[i] # "/"
      ELSE r = Null

\* C9 witness: toDefaultApp returned an app whose owner has SegMax characters.
C9_Witness ==
  /\ appResult # Undef /\ appResult[1] # Null
  /\ Len(appResult[1].ownerName) = SegMax

\* C10: setAccessToken(token) leaves the profile file and the cache as they
\* were; when it resolves, the token store maps the profile's userName to
\* token and the resolved value is the instance it was called on.
C10_SetAccessToken ==
  [][(Idle /\ call'.op = "setAccessToken")
       => /\ file' = file /\ currentProfile' = currentProfile
          /\ call'.self = held
          /\ call'.out = "resolved" =>
               /\ TokenStoreHas(tokens', held.userName)
               /\ tokens'[held.userName] = call'.token
               /\ call'.ret = held]_vars

\* C10 witness: setAccessToken resolved with a profile file on disk and a
\* profile cached that is another instance than the one it was called on.
C10_Witness ==
  /\ call.op = "setAccessToken" /\ call.out = "resolved"
  /\ fileExists(file) /\ currentProfile # Null /\ currentProfile # call.self

\* C11: save() leaves the token store as it was, writes the six fields of
\* the profile over whatever the profile file held and returns the profile
\* it was called on; the profile file never holds a field other than the six.
C11_SaveWritesOnlyTheSixFields ==
  /\ [](fileExists(file) => DOMAIN file.contents \subseteq ProfileKeys)
  /\ [][(Idle /\ call'.op = "save")
          => /\ tokens' = tokens
             /\ fileExists(file')
             /\ \A k \in ProfileKeys : Get(file'.contents, k) = held[k]
             /\ call'.out = "returned" /\ call'.ret = held /\ held' = held]_vars

\* C11 witness: save() returned, having replaced the profile file of another
\* user, with a token in the store for the profile saved.
C11_Witness ==
  /\ call.op = "save" /\ call.out = "returned"
  /\ TokenStoreHas(tokens, call.self.userName)
  /\ currentProfile # Null /\ currentProfile.userName # call.self.userName
  /\ file.contents.userName = call.self.userName

\* C12: in saveUser the profile file changes only once the token store's set
\* has succeeded (the token is in the store); if the set fails, saveUser
\* rejects with that failure and the profile file is as it was.
C12_SaveUserWritesAfterTokenSet ==
  [][(call'.op = "saveUser")
       => /\ (call'.out = "rejected") => (call'.err = "tokenStore" /\ file' = file)
          /\ (file' # file) =>
               /\ call.op = "saveUser" /\ call.out = "pending"
               /\ TokenStoreHas(tokens, call.user.name)
               /\ tokens[call.user.name] = call.token]_vars

\* C12 witness: saveUser rejected on the token store, with the profile file
\* of an earlier user still on disk.
C12_Witness ==
  /\ call.op = "saveUser" /\ call.out = "rejected" /\ call.err = "tokenStore"
  /\ fileExists(file) /\ file.contents.userName # call.user.name

\* C13: logout() deletes the profile file only once the token store's remove
\* has succeeded; if the remove fails, logout() rejects with the file as it
\* was; if deleting the file fails, logout() rejects with that error, the
\* file still there and the token entry already removed.
C13_LogoutRemovesTokenFirst ==
  /\ [][(call'.op = "logout")
          => /\ (call'.err = "tokenStore") =>
                  (call'.out = "rejected" /\ file' = file /\ tokens' = tokens)
             /\ (file' # file) =>
                  /\ call.op = "logout" /\ call.out = "pending"
                  /\ ~TokenStoreHas(tokens, call.self.userName)]_vars
  /\ []((call.op = "logout" /\ call.out = "rejected" /\ call.err # "tokenStore")
          => /\ call.err = "EACCES"
             /\ fileExists(file)
             /\ ~TokenStoreHas(tokens, call.self.userName))

\* C13 witness: logout() rejected on the file deletion.
C13_Witness ==
  /\ call.op = "logout" /\ call.out = "rejected" /\ call.err = "EACCES"
  /\ fileExists(file) /\ file.contents.userName = call.self.userName

\* C14: the two stores change in separate steps, and a crash between them
\* leaves both as they are.  While logout() (also within deleteUser) awaits
\* its second step the token entry of the profile is gone and the profile
\* file is as it was; while saveUser awaits its second step the token is in
\* the store under user.name and the profile file is as it was.
C14_NotAtomic ==
  /\ []((call.op \in {"logout", "deleteUser"} /\ call.out = "pending")
          => ~TokenStoreHas(tokens, call.self.userName))
  /\ []((call.op = "saveUser" /\ call.out = "pending")
          => /\ TokenStoreHas(tokens, call.user.name)
             /\ tokens[call.user.name] = call.token)
  /\ [][(call'.out = "pending") => file' = file]_vars
  /\ [][(call.out = "pending" /\ call'.op = "none")
          => (file' = file /\ tokens' = tokens /\ call'.crashed = call.op)]_vars

\* C14 witness: saveUser awaits its second step in a process started after
\* a crash between the two steps of a logout: the token of the new user is
\* in the store while the profile file still records the user logged out,
\* whose token is gone.
C14_Witness ==
  /\ call.op = "saveUser" /\ call.out = "pending"
  /\ call.crashed \in {"logout", "deleteUser"}
  /\ TokenStoreHas(tokens, call.user.name)
  /\ fileExists(file)
  /\ file.contents.userName # call.user.name
  /\ file.contents.userName # saveUserProfile(call.user, call.env, 0).userName
  /\ ~TokenStoreHas(tokens, file.contents.userName)

\* A step of the running process (not a restart).
SameProcess == call'.op # "none"

\* C15: the cache goes from empty to a profile only in a getUser() (by
\* itself or within deleteUser) that finds a profile file, and it then holds
\* a new instance with the userName of that file; once it holds a profile,
\* every step of the process leaves that instance in it; only a restart
\* empties it.
C15_CacheKeptUntilRestart ==
  /\ [][(currentProfile = Null /\ currentProfile' # Null)
          => /\ call'.op \in {"getUser", "deleteUser"}
             /\ fileExists(file)
             /\ currentProfile'.oid = allocated + 1
             /\ currentProfile'.userName = file.contents.userName]_vars
  /\ [][(currentProfile # Null /\ SameProcess) => currentProfile' = currentProfile]_vars
  /\ [][(currentProfile # Null /\ currentProfile' = Null)
          => (call'.op = "none" /\ allocated' = 0)]_vars

\* C15 witness: the cache still holds the profile on which logout() has
\* resolved, with the profile file gone.
C15_Witness ==
  /\ call.op = "logout" /\ call.out = "resolved"
  /\ currentProfile # Null /\ call.self = currentProfile
  /\ ~fileExists(file)

\* C16: whenever a profile is cached and a profile file exists, the cached
\* profile has the userId and the userName of the profile in the file.
C16_SingleUser ==
  (currentProfile # Null /\ fileExists(file)) =>
    /\ currentProfile.userId = loadProfile.userId
    /\ currentProfile.userName = loadProfile.userName

\* C17: when saveUser has resolved, the key it stored the token under
\* (user.name) is the userName of the profile it resolved to.
C17_TokenKeyIsUserName ==
  (call.op = "saveUser" /\ call.out = "resolved") =>
    /\ call.user.name = call.ret.userName
    /\ TokenStoreHas(tokens, call.ret.userName)
    /\ tokens[call.ret.userName] = call.token

\* C18: a getUser() that follows one that returned null, and finds a profile
\* file, reads the file and returns a new profile, now cached, with the
\* userName, displayName and environment of the file.
C18_NullNotMemoized ==
  (call.op = "getUser" /\ call.out = "returned" /\ call.prev = 0 /\ fileExists(file))
    => /\ call.read
       /\ call.ret # Null /\ call.ret = currentProfile
       /\ \A k \in {"userName", "displayName", "environment"} :
            call.ret[k] = Get(file.contents, k)

\* C18 witness: getUser() returned a profile after a getUser() that returned
\* null.
C18_Witness ==
  /\ call.op = "getUser" /\ call.out = "returned" /\ call.prev = 0
  /\ call.ret # Null /\ call.read

\* C19: when deleteUser() has resolved after deleting a profile file, the
\* token store has no entry for the userName that file recorded.
C19_NoCredentialLeft ==
  (call.op = "deleteUser" /\ call.out = "resolved" /\ call.deleted # NoArg)
    => ~TokenStoreHas(tokens, Get(call.deleted, "userName"))

====
